---------------------------- MODULE Spec2Model ----------------------------
(***************************************************************************)
(* State-machine model of TelegramForwardClient                            *)
(* (src/telegram_upload/client/telegram_forward_client.py): the            *)
(* incremental forward-sync of a source chat into a destination chat, its  *)
(* delivery ledger (forwarded_messages.log), its run watermark store       *)
(* (forward_timestamps.json), the planner and the delivery loop.           *)
(*                                                                         *)
(* A token f"{source_entity.id}:{msg.id}" is modelled as the pair <<c, m>>:*)
(* the decimal rendering of two integers joined by ':' is injective, and   *)
(* so is str(source_entity.id), the key of the watermark mapping.          *)
(***************************************************************************)
EXTENDS Integers, Sequences, FiniteSets, TLC

(* ------------------------------ bounds --------------------------------- *)
NumChats == 2
MaxMsg == 2
MaxTime == 2
MaxRuns == 3
\* rate-limit signals, crashes, runs with a topic label and runs for a chat
\* other than chat 1, counted together over a behaviour
MaxExtras == 2
\* messages posted and edits made, counted together over a behaviour
MaxEnv == 2

(* -------------------------- value domains ------------------------------ *)
Chats == 1..NumChats
Instants == 0..MaxTime
\* dict.get(key, 0.0) of a missing key; NoEntry marks the missing key.
NoEntry == -1
\* msg.edit_date is None
NoEdit == 0
\* destination_topic_id = None
NoTopic == 0
\* seconds carried by a FloodWaitError
FloodSecs == {3, 5}

\* topic_name argument: None, the empty string, or a label
NoName == "None"
EmptyName == ""
Labels == {"S1"}
TopicArgs == {NoName, EmptyName} \cup Labels

\* getattr(source_entity, 'title', None) or getattr(source_entity, 'username', None):
\* the display name of the resolved source entity, or none
SourceNames == {NoName, "S1"}

(* --------------------------- message records --------------------------- *)
\* media: None, MessageMediaWebPage, a photo, or a document with attributes
MediaKinds == {"none", "webpage", "photo", "document"}
AttrKinds == {"filename", "sticker", "animated", "audio", "imagesize"}

Shape(action, media, attrs, text) ==
    [action |-> action, media |-> media, attrs |-> attrs, text |-> text]

AllShapes ==
    { Shape(a, md, at, tx) : a \in BOOLEAN, md \in MediaKinds,
                             at \in SUBSET AttrKinds, tx \in BOOLEAN }

WellFormed(s) == (s.media # "document" => s.attrs = {})
                 /\ (s.action => s.media = "none" /\ ~s.text)

ShText == Shape(FALSE, "none", {}, TRUE)
ShFile == Shape(FALSE, "document", {"filename"}, FALSE)
ShEmpty == Shape(FALSE, "none", {}, FALSE)
ShService == Shape(TRUE, "none", {}, FALSE)
\* the shapes the source chats of the run model hold
RunShapes == {ShText, ShFile, ShEmpty, ShService}

Msg(id, shape, edit) == [id |-> id, shape |-> shape, edit |-> edit]

(* ----------------------------- variables ------------------------------- *)
VARIABLES
    now,                 \* time.time()
    history,             \* history[c]: messages of chat c, by ascending id
    destTopics,          \* titles of the topic-creation markers of the destination
                         \* history, oldest first; the id of a marker is its place
    logFile,             \* forwarded_messages.log, one token per line
    tsFile,              \* forward_timestamps.json
    forwarded_ids,       \* self.forwarded_ids
    pc,                  \* position in forward_messages_from_chat
    source_entity,       \* id of the resolved source chat
    files_only,
    topic_name,
    final_topic_name,
    all_timestamps,
    last_run_timestamp,
    current_run_timestamp,
    destination_topic_id,
    new_messages,        \* the plan, oldest first
    idx,                 \* position of message_to_send in new_messages
    total_forwarded_in_session,
    ret,                 \* value returned by the last run
    outcome,             \* the return statement (or crash) that ended the last run
    sentLog,             \* send_file/send_message calls that returned, this run
    sleepLog,            \* time.sleep() calls of the current remote call
    floodLog,            \* seconds signalled to the current remote call
    obs,                 \* history variables the properties are stated with:
      \* failed:      tokens whose send raised a non-rate-limit error in the
      \*              last run that planned their chat
      \* delivered:   <<chat, id, edit>> of the sends that returned, for the
      \*              versions not edited after their run's start instant
      \* windowCrash: tokens whose run crashed between the return of the send
      \*              and the write of the token to the log file
      \* requalified: <<chat, id, edit>> planned although the token was known,
      \*              the edit being before the run's start, in a run that
      \*              was not ended by a crash
      \* quiet:       "clean"/"plain" while the source chat is unchanged since
      \*              the last listing ("clean": every send of that run
      \*              succeeded and no edit instant is after its start)
      \* follow:      what quiet was when the current run was called, if it
      \*              was called for the same chat with the same files_only
      \*              right after a run that returned past the listing
      \* late:        tokens of the messages posted or edited in the source
      \*              chat of the current run at an instant later than its
      \*              start instant, that version not delivered by the run
      \*              (emptied when the run is ended by a crash)
      \* due:         the late tokens of the runs before the current one,
      \*              until a run lists their chat
      \* scan:        "found"/"created": how the current run got its topic id
      \* loads:       calls of _load_timestamps made by the current run
      \* saves:       calls of _save_timestamps made by the current run
    runs, extras, envs   \* budget counters

envVars == <<now, history, envs>>
durVars == <<logFile, tsFile>>
argVars == <<source_entity, files_only, topic_name, final_topic_name>>
tsVars == <<all_timestamps, last_run_timestamp, current_run_timestamp>>
loopVars == <<new_messages, idx, total_forwarded_in_session>>
waitVars == <<sleepLog, floodLog, extras>>
vars == <<now, history, destTopics, logFile, tsFile, forwarded_ids, pc,
          source_entity, files_only, topic_name, final_topic_name, all_timestamps,
          last_run_timestamp, current_run_timestamp, destination_topic_id,
          new_messages, idx, total_forwarded_in_session, ret, outcome, sentLog,
          sleepLog, floodLog, obs, runs, extras, envs>>

(* ------------------------------ helpers -------------------------------- *)
RECURSIVE Reverse(_)
Reverse(s) == IF s = <<>> THEN <<>> ELSE Append(Reverse(Tail(s)), Head(s))

Range(s) == { s[i] : i \in DOMAIN s }

Token(c, m) == <<c, m>>

\* _load_forwarded_ids: the set of the non-blank lines of the log file
LoadForwardedIds(file) == Range(file)

\* the write that does not reach the file
SaveForwardedIds_WriteLost(file, token) == file

\* the file opened with 'w' for 'a'
SaveForwardedIds_Truncates(file, token) == <<token>>

\* _save_forwarded_ids: append every id of the set to the log file
SaveForwardedIds(file, token) == Append(file, token)

\* the mapping loaded as the empty one (line 87, line 93)
LoadTimestamps_StartsFresh(file) == [c \in Chats |-> NoEntry]

\* _load_timestamps (lines 84-93): the mapping the file holds. The file is
\* written by _save_timestamps alone, so json.load decodes it
LoadTimestamps(file) == file

\* the lookup of line 118 with a key the mapping never holds
GetTimestamp_KeyMissed(ts, c) == 0

\* line 118: all_timestamps.get(str(source_entity.id), 0.0)
GetTimestamp(ts, c) == IF ts[c] = NoEntry THEN 0 ELSE ts[c]

\* _save_timestamps: full overwrite of the file with the mapping
SaveTimestamps(ts) == ts

\* iter_messages(source_entity): newest first
IterMessages(c) == Reverse(history[c])

\* line 145: keep the records without a service action
NotService(m) == ~m.shape.action

\* the predicate without its sticker test
IsRealFile_StickerAllowed(m) ==
    /\ m.shape.media = "document"
    /\ "animated" \notin m.shape.attrs
    /\ "audio" \notin m.shape.attrs
    /\ "imagesize" \notin m.shape.attrs

\* lines 147-154: the files-only predicate
IsRealFile(m) ==
    /\ m.shape.media = "document"
    /\ "sticker" \notin m.shape.attrs
    /\ "animated" \notin m.shape.attrs
    /\ "audio" \notin m.shape.attrs
    /\ "imagesize" \notin m.shape.attrs

FilterMessages(msgs, fo) ==
    LET a == SelectSeq(msgs, NotService)
    IN  IF fo THEN SelectSeq(a, IsRealFile) ELSE a

\* the edit test of line 168 with >= for >
ToProcess_EditAtWatermark(c, ids, last, m) ==
    \/ Token(c, m.id) \notin ids
    \/ (m.edit # NoEdit /\ m.edit >= last)

\* lines 162-172: is the record appended to messages_to_process
ToProcess(c, ids, last, m) ==
    \/ Token(c, m.id) \notin ids
    \/ (m.edit # NoEdit /\ m.edit > last)

\* the planner without its ledger test
PlanMessages_PlansAll(c, ids, last, msgs) == msgs

\* lines 160-172: messages_to_process
PlanMessages(c, ids, last, msgs) ==
    LET P(m) == ToProcess(c, ids, last, m) IN SelectSeq(msgs, P)

\* the plan left in the order of the listing
OldestFirst_NotReversed(plan) == plan

\* line 185: new_messages.reverse()
OldestFirst(plan) == Reverse(plan)

\* lines 194-206: the remote call the loop makes for a record
SendCall(m) ==
    IF m.shape.media # "none" /\ m.shape.media # "webpage" THEN "send_file"
    ELSE IF m.shape.text THEN "send_message"
    ELSE "none"

(* ------------------------------- Init ---------------------------------- *)
EmptyTs == [c \in Chats |-> NoEntry]

\* the process before its first run, whatever the source chats hold
InitProcess ==
    /\ now = 0
    /\ destTopics = <<>>
    /\ logFile = <<>>
    /\ tsFile = EmptyTs
    /\ forwarded_ids = LoadForwardedIds(<<>>)
    /\ pc = "idle"
    /\ source_entity = 0
    /\ files_only = FALSE
    /\ topic_name = NoName
    /\ final_topic_name = NoName
    /\ all_timestamps = EmptyTs
    /\ last_run_timestamp = 0
    /\ current_run_timestamp = 0
    /\ destination_topic_id = NoTopic
    /\ new_messages = <<>>
    /\ idx = 0
    /\ total_forwarded_in_session = 0
    /\ ret = 0
    /\ outcome = "none"
    /\ sentLog = <<>>
    /\ sleepLog = <<>>
    /\ floodLog = <<>>
    /\ runs = 0
    /\ extras = 0
    /\ obs = [failed |-> {}, delivered |-> {}, windowCrash |-> {},
              requalified |-> {}, quiet |-> "none", follow |-> "no",
              late |-> {}, due |-> {}, scan |-> "none", loads |-> 0,
              saves |-> 0]
    /\ envs = 0

Init ==
    /\ history = [c \in Chats |-> <<>>]
    /\ InitProcess

(* ---------------------- forward_messages_from_chat --------------------- *)
\* the locals a finished run leaves behind are dead: reset them
ResetLocals ==
    /\ topic_name' = NoName
    /\ final_topic_name' = NoName
    /\ all_timestamps' = EmptyTs
    /\ last_run_timestamp' = 0
    /\ destination_topic_id' = NoTopic
    /\ new_messages' = <<>>
    /\ idx' = 0
    /\ total_forwarded_in_session' = 0

\* a return statement of forward_messages_from_chat
Return(value, how) ==
    /\ pc' = "idle"
    /\ ret' = value
    /\ outcome' = how
    /\ ResetLocals

StartCost(c, tn) == (IF c # 1 THEN 1 ELSE 0) + (IF tn # NoName THEN 1 ELSE 0)

\* call forward_messages_from_chat(source_chat, destination_chat, files_only, topic_name)
Start(c, fo, tn) ==
    /\ pc = "idle"
    /\ runs < MaxRuns
    /\ runs' = runs + 1
    /\ extras + StartCost(c, tn) <= MaxExtras
    /\ extras' = extras + StartCost(c, tn)
    /\ pc' = "resolve_src"
    /\ source_entity' = c
    /\ files_only' = fo
    /\ topic_name' = tn
    /\ final_topic_name' = NoName
    /\ sentLog' = <<>>
    /\ sleepLog' = <<>>
    /\ floodLog' = <<>>
    /\ outcome' = "running"
    /\ ret' = 0
    /\ current_run_timestamp' = 0
    /\ obs' = [obs EXCEPT
                  !.follow = IF c # source_entity \/ fo # files_only
                                \/ outcome \notin {"no_messages", "nothing_new",
                                                   "completed"}
                             THEN "no"
                             ELSE IF obs.quiet = "none" THEN "no" ELSE obs.quiet,
                  !.quiet = "none",
                  !.scan = "none",
                  !.loads = 0,
                  !.saves = 0]
    /\ UNCHANGED <<envVars, durVars, destTopics, forwarded_ids,
                   all_timestamps, last_run_timestamp, destination_topic_id,
                   loopVars>>

\* the handler without its time.sleep
SleepAndRetry_NoSleep(s) == sleepLog' = sleepLog

\* lines 46-47 and 220-221: time.sleep(e.seconds), then the while loop
\* makes the call again
SleepAndRetry(s) == sleepLog' = Append(sleepLog, s)

\* lines 45-47: get_entity raised FloodWaitError: sleep e.seconds and retry
ResolveFlood(s) ==
    /\ pc \in {"resolve_src", "resolve_dst"}
    /\ extras < MaxExtras
    /\ extras' = extras + 1
    /\ floodLog' = Append(floodLog, s)
    /\ SleepAndRetry(s)
    /\ UNCHANGED <<envVars, durVars, destTopics, forwarded_ids, pc, argVars,
                   tsVars, destination_topic_id, loopVars, ret, outcome,
                   sentLog, runs, obs>>

\* lines 48-50 and 110-115: get_entity raised another error: return 0
ResolveFail ==
    /\ pc \in {"resolve_src", "resolve_dst"}
    /\ Return(0, "abort_entity")
    /\ UNCHANGED <<envVars, durVars, destTopics, forwarded_ids, source_entity,
                   files_only, current_run_timestamp, sentLog, waitVars, runs, obs>>

\* line 109: the source chat resolved
ResolveSrcOK ==
    /\ pc = "resolve_src"
    /\ pc' = "resolve_dst"
    /\ sleepLog' = <<>>
    /\ floodLog' = <<>>
    /\ UNCHANGED <<envVars, durVars, destTopics, forwarded_ids, argVars,
                   tsVars, destination_topic_id, loopVars, ret, outcome,
                   sentLog, runs, extras, obs>>

\* lines 122-127: the label of the topic to resolve
FinalTopicName(tn, source_name) == IF tn = EmptyName THEN source_name ELSE tn

\* lines 113-133: the destination resolved; load the watermarks, take the
\* run's start instant, decide the topic label (source_name is the display
\* name of the source entity, read at line 125 only for the empty label).
\* topic_name is not read after line 133.
ResolveDstOK(source_name) ==
    /\ pc = "resolve_dst"
    /\ topic_name # EmptyName => source_name = NoName
    /\ current_run_timestamp' = now
    /\ IF topic_name = EmptyName /\ source_name = NoName
       THEN /\ Return(0, "abort_topic")
            /\ UNCHANGED <<source_entity, files_only, sleepLog, floodLog>>
       ELSE /\ all_timestamps' = LoadTimestamps(tsFile)
            /\ last_run_timestamp' =
                   GetTimestamp(LoadTimestamps(tsFile), source_entity)
            /\ final_topic_name' = FinalTopicName(topic_name, source_name)
            /\ topic_name' = NoName
            /\ pc' = IF FinalTopicName(topic_name, source_name) # NoName
                     THEN "topic" ELSE "fetch"
            /\ sleepLog' = <<>>
            /\ floodLog' = <<>>
            /\ UNCHANGED <<source_entity, files_only, destination_topic_id,
                           loopVars, ret, outcome>>
    /\ obs' = [obs EXCEPT !.loads = @ + 1,
                           !.due = @ \cup obs.late,
                           !.late = {}]
    /\ UNCHANGED <<envVars, durVars, destTopics, forwarded_ids, sentLog,
                   runs, extras>>

(* ----------------------- _get_or_create_topic_id ----------------------- *)
\* the scan finding no marker whatever the history holds
ScanTopic_NeverFinds(markers, title) == NoTopic

\* lines 55-61: the id of the first marker of the history, newest first,
\* whose title equals the label; None when there is none
ScanTopic(markers, title) ==
    LET hits == { i \in DOMAIN markers : markers[i] = title }
    IN  IF hits = {} THEN NoTopic
        ELSE CHOOSE i \in hits : \A j \in hits : j <= i

\* lines 56-61: a marker with the title exists in the destination history
TopicFound ==
    /\ pc = "topic"
    /\ ScanTopic(destTopics, final_topic_name) # NoTopic
    /\ destination_topic_id' = ScanTopic(destTopics, final_topic_name)
    /\ pc' = "fetch"
    /\ obs' = [obs EXCEPT !.scan = "found"]
    /\ UNCHANGED <<envVars, durVars, destTopics, forwarded_ids, argVars,
                   tsVars, loopVars, ret, outcome, sentLog, waitVars, runs>>

\* lines 63-77: no marker; CreateForumTopicRequest returned the new marker
TopicCreateOK ==
    /\ pc = "topic"
    /\ ScanTopic(destTopics, final_topic_name) = NoTopic
    /\ destTopics' = Append(destTopics, final_topic_name)
    /\ destination_topic_id' = Len(destTopics) + 1
    /\ pc' = "fetch"
    /\ obs' = [obs EXCEPT !.scan = "created"]
    /\ UNCHANGED <<envVars, durVars, forwarded_ids, argVars, tsVars, loopVars,
                   ret, outcome, sentLog, waitVars, runs>>

\* lines 72-77 and 135-137: the request returned no topic-creation marker
TopicCreateNoMarker ==
    /\ pc = "topic"
    /\ ScanTopic(destTopics, final_topic_name) = NoTopic
    /\ destTopics' = Append(destTopics, final_topic_name)
    /\ Return(0, "abort_topic")
    /\ UNCHANGED <<envVars, durVars, forwarded_ids, source_entity, files_only,
                   current_run_timestamp, sentLog, waitVars, runs, obs>>

\* lines 78-80 and 135-137: the request raised FloodWaitError, which is an
\* Exception: "Error creating topic" is printed and None returned
TopicCreateFlood(s) ==
    /\ pc = "topic"
    /\ ScanTopic(destTopics, final_topic_name) = NoTopic
    /\ extras < MaxExtras
    /\ extras' = extras + 1
    /\ floodLog' = Append(floodLog, s)
    /\ Return(0, "abort_topic")
    /\ UNCHANGED <<envVars, durVars, destTopics, forwarded_ids, source_entity,
                   files_only, current_run_timestamp, sentLog, sleepLog, runs, obs>>

\* the abort of line 137 after a save of the run's start instant
TopicCreateError_SavesWatermark ==
    /\ pc = "topic"
    /\ ScanTopic(destTopics, final_topic_name) = NoTopic
    /\ tsFile' = SaveTimestamps(
           [all_timestamps EXCEPT ![source_entity] = current_run_timestamp])
    /\ Return(0, "abort_topic")
    /\ UNCHANGED <<envVars, logFile, destTopics, forwarded_ids, source_entity,
                   files_only, current_run_timestamp, sentLog, waitVars, runs,
                   obs>>

\* lines 78-80 and 135-137: the request raised another exception
TopicCreateError ==
    /\ pc = "topic"
    /\ ScanTopic(destTopics, final_topic_name) = NoTopic
    /\ Return(0, "abort_topic")
    /\ UNCHANGED <<envVars, durVars, destTopics, forwarded_ids, source_entity,
                   files_only, current_run_timestamp, sentLog, waitVars, runs, obs>>

(* -------------------------- planner (142-188) -------------------------- *)
\* the versions the listing of this run plans although their token is known,
\* edited before the start of the run
Requalified ==
    LET all_messages == FilterMessages(IterMessages(source_entity), files_only)
    IN  { <<source_entity, all_messages[i].id, all_messages[i].edit>> :
            i \in { j \in DOMAIN all_messages :
                      /\ Token(source_entity, all_messages[j].id) \in forwarded_ids
                      /\ all_messages[j].edit # NoEdit
                      /\ all_messages[j].edit > last_run_timestamp
                      /\ all_messages[j].edit < current_run_timestamp } }

\* lines 142-188: list the source history, filter it, plan, and either
\* return (nothing matches, nothing new) or enter the delivery loop
Fetch ==
    /\ pc = "fetch"
    /\ LET all_messages == FilterMessages(IterMessages(source_entity), files_only)
           messages_to_process ==
               PlanMessages(source_entity, forwarded_ids, last_run_timestamp,
                            all_messages)
       IN  IF all_messages = <<>>
           THEN /\ Return(0, "no_messages")
                /\ UNCHANGED <<tsFile, source_entity, files_only>>
           ELSE IF messages_to_process = <<>>
           THEN /\ tsFile' = SaveTimestamps(
                      [all_timestamps EXCEPT ![source_entity] = current_run_timestamp])
                /\ Return(0, "nothing_new")
                /\ UNCHANGED <<source_entity, files_only>>
           ELSE /\ new_messages' = OldestFirst(messages_to_process)
                /\ idx' = 1
                /\ total_forwarded_in_session' = 0
                /\ pc' = "send"
                /\ UNCHANGED <<tsFile, argVars, all_timestamps,
                               last_run_timestamp, destination_topic_id, ret,
                               outcome>>
    /\ obs' = [obs EXCEPT
                  !.failed = { t \in @ : t[1] # source_entity },
                  !.saves = IF pc' = "idle" /\ outcome' = "nothing_new"
                            THEN @ + 1 ELSE @,
                  !.due = { t \in @ : t[1] # source_entity },
                  !.requalified = @ \cup Requalified,
                  !.quiet = IF \A i \in DOMAIN history[source_entity] :
                                  history[source_entity][i].edit
                                      <= current_run_timestamp
                            THEN "clean" ELSE "plain"]
    /\ UNCHANGED <<envVars, logFile, destTopics, forwarded_ids,
                   current_run_timestamp, sentLog, waitVars, runs>>

(* ------------------------ delivery loop (191-224) ---------------------- *)
message_to_send == new_messages[idx]

\* line 191/217/224: the for loop takes the next record, or ends
NextMessage ==
    /\ sleepLog' = <<>>
    /\ floodLog' = <<>>
    /\ IF idx < Len(new_messages)
       THEN idx' = idx + 1 /\ pc' = "send"
       ELSE idx' = idx /\ pc' = "save"

\* lines 194-206: send_file / send_message returned
SendOK ==
    /\ pc = "send"
    /\ SendCall(message_to_send) # "none"
    /\ sentLog' = Append(sentLog, [id |-> message_to_send.id,
                                   edit |-> message_to_send.edit,
                                   call |-> SendCall(message_to_send)])
    /\ pc' = "persist"
    /\ obs' = [obs EXCEPT
                  !.delivered =
                      IF message_to_send.edit <= current_run_timestamp
                      THEN @ \cup {<<source_entity, message_to_send.id,
                                     message_to_send.edit>>}
                      ELSE @,
                  !.late =
                      IF message_to_send.edit
                             = history[source_entity][message_to_send.id].edit
                      THEN @ \ {Token(source_entity, message_to_send.id)}
                      ELSE @]
    /\ UNCHANGED <<envVars, durVars, destTopics, forwarded_ids, argVars,
                   tsVars, destination_topic_id, loopVars, ret, outcome,
                   waitVars, runs>>

\* lines 194-206: neither branch applies, no remote call is made
SendNothing ==
    /\ pc = "send"
    /\ SendCall(message_to_send) = "none"
    /\ pc' = "persist"
    /\ UNCHANGED <<envVars, durVars, destTopics, forwarded_ids, argVars,
                   tsVars, destination_topic_id, loopVars, ret, outcome,
                   sentLog, waitVars, runs, obs>>

\* lines 219-221: the send raised FloodWaitError: sleep e.seconds, retry
SendFlood(s) ==
    /\ pc = "send"
    /\ SendCall(message_to_send) # "none"
    /\ extras < MaxExtras
    /\ extras' = extras + 1
    /\ floodLog' = Append(floodLog, s)
    /\ SleepAndRetry(s)
    /\ UNCHANGED <<envVars, durVars, destTopics, forwarded_ids, pc, argVars,
                   tsVars, destination_topic_id, loopVars, ret, outcome,
                   sentLog, runs, obs>>

\* the handler leaving the for loop as well
SkipRecord_EndsLoop ==
    /\ sleepLog' = <<>>
    /\ floodLog' = <<>>
    /\ idx' = idx
    /\ pc' = "save"

\* line 224: break out of the while loop, on to the next record
SkipRecord == NextMessage

\* lines 222-224: the send raised another error: log it, next record
SendError ==
    /\ pc = "send"
    /\ SendCall(message_to_send) # "none"
    /\ obs' = [obs EXCEPT
                  !.failed = @ \cup {Token(source_entity, message_to_send.id)},
                  !.quiet = IF @ = "none" THEN "none" ELSE "plain"]
    /\ SkipRecord
    /\ UNCHANGED <<envVars, durVars, destTopics, forwarded_ids, argVars,
                   tsVars, destination_topic_id, new_messages,
                   total_forwarded_in_session, ret, outcome, sentLog, runs,
                   extras>>

\* lines 208-210: append the token to the log file unless it is known;
\* a known token goes on to lines 212-217
Persist ==
    /\ pc = "persist"
    /\ IF Token(source_entity, message_to_send.id) \notin forwarded_ids
       THEN /\ logFile' = SaveForwardedIds(logFile,
                              Token(source_entity, message_to_send.id))
            /\ pc' = "memadd"
            /\ UNCHANGED <<loopVars, sleepLog, floodLog>>
       ELSE /\ total_forwarded_in_session' = total_forwarded_in_session + 1
            /\ NextMessage
            /\ UNCHANGED <<logFile, new_messages>>
    /\ UNCHANGED <<envVars, tsFile, destTopics, forwarded_ids, argVars, tsVars,
                   destination_topic_id, ret, outcome, sentLog, runs, extras, obs>>

\* lines 211-217: add the token to the in-memory set, count, next record
MemAdd ==
    /\ pc = "memadd"
    /\ forwarded_ids' = forwarded_ids \cup {Token(source_entity, message_to_send.id)}
    /\ total_forwarded_in_session' = total_forwarded_in_session + 1
    /\ NextMessage
    /\ UNCHANGED <<envVars, durVars, destTopics, argVars, tsVars,
                   destination_topic_id, new_messages, ret, outcome, sentLog,
                   runs, extras, obs>>

\* lines 226-230: save the watermark and return the session count
SaveWatermark ==
    /\ pc = "save"
    /\ tsFile' = SaveTimestamps(
           [all_timestamps EXCEPT ![source_entity] = current_run_timestamp])
    /\ Return(total_forwarded_in_session, "completed")
    /\ obs' = [obs EXCEPT !.saves = @ + 1]
    /\ UNCHANGED <<envVars, logFile, destTopics, forwarded_ids, source_entity,
                   files_only, current_run_timestamp, sentLog, waitVars, runs>>

(* ------------------------------ process -------------------------------- *)
\* the process dies inside a run; the next process runs __init__ (lines
\* 19-22), which loads forwarded_ids from the log file
Crash ==
    /\ pc # "idle"
    /\ extras < MaxExtras
    /\ extras' = extras + 1
    /\ forwarded_ids' = LoadForwardedIds(logFile)
    /\ pc' = "idle"
    /\ outcome' = "crashed"
    /\ ResetLocals
    /\ obs' = [obs EXCEPT
                  !.windowCrash =
                      IF pc = "persist" /\ SendCall(message_to_send) # "none"
                      THEN @ \cup {Token(source_entity, message_to_send.id)}
                      ELSE @,
                  !.requalified =
                      @ \ { <<source_entity, new_messages[i].id,
                                new_messages[i].edit>> : i \in DOMAIN new_messages },
                  !.late = {},
                  !.quiet = "none"]
    /\ UNCHANGED <<envVars, durVars, destTopics, source_entity, files_only,
                   current_run_timestamp, ret, sentLog, sleepLog, floodLog,
                   runs>>

(* ---------------------------- environment ------------------------------ *)
\* the run has taken its start instant (line 119) and has not returned
Started == pc \in {"topic", "fetch", "send", "persist", "memadd", "save"}

\* source activity on message id of chat c: the chat is no longer as the
\* last listing saw it, and a run that has not listed it yet will see the
\* change
Activity(c, id) ==
    obs' = [obs EXCEPT
               !.late = IF c = source_entity /\ Started
                           /\ now > current_run_timestamp
                        THEN @ \cup {Token(c, id)} ELSE @,
               !.quiet = IF c = source_entity THEN "none" ELSE @,
               !.follow = IF c = source_entity
                             /\ pc \in {"resolve_src", "resolve_dst", "topic",
                                        "fetch"}
                          THEN "no" ELSE @]

Tick ==
    /\ now < MaxTime
    /\ now' = now + 1
    /\ UNCHANGED <<history, envs, durVars, destTopics, forwarded_ids, pc,
                   argVars, tsVars, destination_topic_id, loopVars, ret,
                   outcome, sentLog, waitVars, runs, obs>>

\* a message is posted in chat c
Post(c, shape) ==
    /\ Len(history[c]) < MaxMsg
    /\ envs < MaxEnv
    /\ envs' = envs + 1
    /\ history' = [history EXCEPT
                     ![c] = Append(@, Msg(Len(@) + 1, shape, NoEdit))]
    /\ Activity(c, Len(history[c]) + 1)
    /\ UNCHANGED <<now, durVars, destTopics, forwarded_ids, pc, argVars,
                   tsVars, destination_topic_id, loopVars, ret, outcome,
                   sentLog, waitVars, runs>>

\* message m of chat c is edited: its edit_date becomes the current instant
Edit(c, m) ==
    /\ m \in DOMAIN history[c]
    /\ ~history[c][m].shape.action
    /\ now > 0
    /\ history[c][m].edit # now
    /\ envs < MaxEnv
    /\ envs' = envs + 1
    /\ history' = [history EXCEPT ![c][m].edit = now]
    /\ Activity(c, m)
    /\ UNCHANGED <<now, durVars, destTopics, forwarded_ids, pc, argVars,
                   tsVars, destination_topic_id, loopVars, ret, outcome,
                   sentLog, waitVars, runs>>

Next ==
    \/ \E c \in Chats, fo \in BOOLEAN, tn \in TopicArgs : Start(c, fo, tn)
    \/ \E s \in FloodSecs : ResolveFlood(s)
    \/ ResolveFail
    \/ ResolveSrcOK
    \/ \E nm \in SourceNames : ResolveDstOK(nm)
    \/ TopicFound
    \/ TopicCreateOK
    \/ TopicCreateNoMarker
    \/ \E s \in FloodSecs : TopicCreateFlood(s)
    \/ TopicCreateError
    \/ Fetch
    \/ SendOK
    \/ SendNothing
    \/ \E s \in FloodSecs : SendFlood(s)
    \/ SendError
    \/ Persist
    \/ MemAdd
    \/ SaveWatermark
    \/ Crash
    \/ Tick
    \/ \E c \in Chats, shape \in RunShapes : Post(c, shape)
    \/ \E c \in Chats, m \in 1..MaxMsg : Edit(c, m)

Spec == Init /\ [][Next]_vars

\* the steps of a run: the single thread of forward_messages_from_chat goes
\* on from every position, every remote call coming back with a result, a
\* rate-limit signal or an error
RunStep ==
    \/ \E s \in FloodSecs : ResolveFlood(s)
    \/ ResolveFail
    \/ ResolveSrcOK
    \/ \E nm \in SourceNames : ResolveDstOK(nm)
    \/ TopicFound
    \/ TopicCreateOK
    \/ TopicCreateNoMarker
    \/ \E s \in FloodSecs : TopicCreateFlood(s)
    \/ TopicCreateError
    \/ Fetch
    \/ SendOK
    \/ SendNothing
    \/ \E s \in FloodSecs : SendFlood(s)
    \/ SendError
    \/ Persist
    \/ MemAdd
    \/ SaveWatermark

\* the runs of Spec in which a run that has been called is not left
\* suspended for ever
LiveSpec == Spec /\ WF_vars(RunStep)

(* ------------------- the planner over every record -------------------- *)
WellFormedShapes == { sh \in AllShapes : WellFormed(sh) }

\* the history of a source chat that holds unedited records of the shapes
\* shapes[1], shapes[2], ...
HistoryOf(shapes) == [i \in DOMAIN shapes |-> Msg(i, shapes[i], NoEdit)]

\* chat 1 holds up to MaxMsg records of any well-formed shape
FilterInit ==
    /\ \E n \in 0..MaxMsg : \E shapes \in [1..n -> WellFormedShapes] :
           history = [c \in Chats |-> IF c = 1 THEN HistoryOf(shapes) ELSE <<>>]
    /\ InitProcess

\* runs of forward_messages_from_chat on chat 1, up to the plan
FilterNext ==
    \/ \E fo \in BOOLEAN : Start(1, fo, NoName)
    \/ ResolveSrcOK
    \/ ResolveDstOK(NoName)
    \/ Fetch

FilterSpec == FilterInit /\ [][FilterNext]_vars

TypeOK ==
    /\ now \in Instants
    /\ pc \in {"idle", "resolve_src", "resolve_dst", "topic", "fetch", "send",
               "persist", "memadd", "save"}
    /\ forwarded_ids \subseteq Range(logFile)

(* ======================= properties of the runs ======================== *)
Ids(log) == { log[i].id : i \in DOMAIN log }

Count(seq, x) == Cardinality({ i \in DOMAIN seq : seq[i] = x })

\* the run returned from one of the return statements after line 137
PastResolution == outcome \in {"no_messages", "nothing_new", "completed"}

\* the run returned 0 at lines 111, 115, 131 or 137
Aborted == outcome \in {"abort_entity", "abort_topic"}

\* C4: every run that gets past entity and topic resolution ends with the
\* stored watermark of its source chat equal to the instant captured at the
\* run's start, also when nothing is planned because the source history is
\* empty or wholly filtered out.
C4_WatermarkOnEveryRun ==
    (pc = "idle" /\ PastResolution)
        => tsFile[source_entity] = current_run_timestamp

\* C5: a rate-limit signal raised by entity resolution, topic creation or a
\* send is never surfaced as a failure: the process sleeps the signalled
\* seconds and retries the same call, the run neither ends nor moves on.
C5_RateLimitRetriedEverywhere ==
    [][Len(floodLog') > Len(floodLog)
          => /\ pc' = pc
             /\ idx' = idx
             /\ outcome' = outcome
             /\ sleepLog' = Append(sleepLog, floodLog'[Len(floodLog')])]_vars

\* C6: a token is added to the ledger only after a send_file or send_message
\* call for that message returned in the same run; a record with neither
\* sendable media nor text causes no ledger entry.
C6_LedgerOnlyAfterSend ==
    [][logFile' # logFile => message_to_send.id \in Ids(sentLog)]_vars

BeforePlanning == pc \in {"resolve_src", "resolve_dst", "topic"}

BeforePlanningStep ==
    /\ logFile' = logFile
    /\ tsFile' = tsFile
    /\ pc' \in {"resolve_src", "resolve_dst", "topic", "fetch", "idle"}
    /\ pc' = "idle" => outcome' \in {"abort_entity", "abort_topic", "crashed"}

\* C10: a run that ends at a sync-fatal error (entity resolution failure,
\* no derivable source name, topic not resolved or created) returns 0, has
\* made no send, and has changed neither the ledger nor the watermark store:
\* no step between the call and such a return writes either of them.
C10_FatalErrorsSideEffectFree ==
    /\ [](Aborted => ret = 0 /\ sentLog = <<>>)
    /\ [][BeforePlanning => BeforePlanningStep]_vars

\* a run aborted at topic resolution although the ledger is not empty and
\* the source chat holds a message that is not in it
C10_Witness ==
    /\ pc = "idle"
    /\ outcome = "abort_topic"
    /\ logFile # <<>>
    /\ \E i \in DOMAIN history[source_entity] :
           /\ Token(source_entity, i) \notin forwarded_ids
           /\ SendCall(history[source_entity][i]) # "none"

(* ---------------------------- delivery loop ---------------------------- *)
InLoop == pc \in {"send", "persist", "memadd"}

this_token == Token(source_entity, message_to_send.id)

\* what holds of the record at hand whatever the rate limits were
SurvivalState ==
    /\ InLoop => sleepLog = floodLog
    /\ \A t \in Range(logFile) : Count(logFile, t) = 1
    /\ \A i, j \in DOMAIN sentLog : sentLog[i].id = sentLog[j].id => i = j
    /\ (pc = "persist" /\ SendCall(message_to_send) # "none")
           => message_to_send.id \in Ids(sentLog)
    /\ pc = "memadd" => this_token \in Range(logFile)

\* a rate limit signalled to a send changes nothing but the sleep
SurvivalRetry ==
    (pc = "send" /\ Len(floodLog') > Len(floodLog))
        => /\ pc' = "send"
           /\ idx' = idx
           /\ sentLog' = sentLog
           /\ logFile' = logFile
           /\ forwarded_ids' = forwarded_ids
           /\ sleepLog' = Append(sleepLog, floodLog'[Len(floodLog')])

\* the loop leaves a record only sent, failed, or with nothing to send
SurvivalAdvance ==
    (InLoop /\ outcome' # "crashed" /\ (idx' # idx \/ pc' = "save"))
        => \/ message_to_send.id \in Ids(sentLog)
           \/ this_token \in obs'.failed
           \/ SendCall(message_to_send) = "none"

\* C9: if the send of a planned message signals a rate limit some number of
\* times and then succeeds, the process has slept exactly the signalled
\* seconds before each retry, the message is delivered exactly once, the
\* ledger holds exactly one entry for it, and the loop does not move on to
\* the next message before the send has succeeded or failed otherwise.
C9_RateLimitSurvival ==
    /\ []SurvivalState
    /\ [][SurvivalRetry]_vars
    /\ [][SurvivalAdvance]_vars

\* a send that was rate limited has succeeded and its token is written
C9_Witness ==
    /\ pc = "memadd"
    /\ floodLog # <<>>
    /\ Count(logFile, this_token) = 1
    /\ Cardinality({ i \in DOMAIN sentLog : sentLog[i].id = message_to_send.id }) = 1

Planned == { new_messages[i] : i \in DOMAIN new_messages }

PlannedToken(m) == Token(source_entity, m.id)

SentAndRecorded(m) ==
    /\ m.id \in Ids(sentLog)
    /\ PlannedToken(m) \in Range(logFile)
    /\ PlannedToken(m) \in forwarded_ids

\* a failed send leads to the next record or to the end of the loop, the
\* run writes no token of a failed record, and the loop ends in the save
ContinuationStep ==
    /\ obs'.failed # obs.failed /\ pc = "send" => pc' \in {"send", "save"}
    /\ logFile' # logFile => this_token \notin obs.failed
    /\ pc = "save" /\ pc' # "save" =>
           \/ outcome' = "crashed"
           \/ outcome' = "completed" /\ tsFile'[source_entity] = current_run_timestamp

\* C8 as stated: whatever subset of the planned sends raises a
\* non-rate-limit error, every other planned message is sent and recorded
\* in the ledger when the loop ends.
C8_EveryOtherMessageSent ==
    pc = "save" =>
        \A m \in Planned : PlannedToken(m) \notin obs.failed => SentAndRecorded(m)

\* C8 amended: whatever subset of the planned sends raises a non-rate-limit
\* error, every other planned message that has sendable media or text is
\* sent and recorded in the ledger, no token of a failing message is written
\* by the run, and the run completes with the watermark of the source chat
\* set to the run's start instant.
C8_PartialFailureContinuation ==
    /\ [](pc = "save" =>
             \A m \in Planned :
                 (PlannedToken(m) \notin obs.failed /\ SendCall(m) # "none")
                     => SentAndRecorded(m))
    /\ [][ContinuationStep]_vars

\* the loop has ended with the first planned send failed and a later one
\* sent and recorded
C8_Witness ==
    /\ pc = "save"
    /\ Len(new_messages) >= 2
    /\ PlannedToken(new_messages[1]) \in obs.failed
    /\ PlannedToken(new_messages[1]) \notin Range(logFile)
    /\ \E i \in 2..Len(new_messages) : SentAndRecorded(new_messages[i])

\* the listing of a run has just been planned
Surviving(c, fo) ==
    Range(FilterMessages(IterMessages(c), fo))

FetchStep == pc = "fetch" /\ pc' # "fetch" /\ outcome' # "crashed"

\* C7: a planned message, new or edited and re-qualified, whose send failed
\* with a non-rate-limit error is in the plan of the next run that lists
\* its chat (if it passes that run's filters).
C7_FailedSendPlannedAgain ==
    [][FetchStep =>
          \A m \in Surviving(source_entity, files_only) :
              Token(source_entity, m.id) \in obs.failed
                  => \E i \in DOMAIN new_messages' : new_messages'[i].id = m.id]_vars

(* ------------------------------ across runs ---------------------------- *)
\* the watermark the store holds for chat c, 0 when it holds none
StoredWatermark(c) == IF tsFile[c] = NoEntry THEN 0 ELSE tsFile[c]

TimesPlanned(plan, id) == Cardinality({ i \in DOMAIN plan : plan[i].id = id })

\* message m is in the ledger, edited after the stored watermark and before
\* the start of the run
EditedSinceWatermark(m) ==
    /\ Token(source_entity, m.id) \in forwarded_ids
    /\ m.edit > StoredWatermark(source_entity)
    /\ m.edit < current_run_timestamp

\* every such message of the set is planned once
RequalifiedOnce(msgs) ==
    \A m \in msgs : EditedSinceWatermark(m) => TimesPlanned(new_messages', m.id) = 1

\* a version an earlier run re-qualified is not planned
NotPlannedAgain ==
    \A i \in DOMAIN new_messages' :
        <<source_entity, new_messages'[i].id, new_messages'[i].edit>>
            \notin obs.requalified

\* C2 as stated: a message in the ledger whose edit instant is after the
\* stored watermark and before the start of the next run is in the plan of
\* that run exactly once; no later run plans it again unless it has been
\* edited again.
C2_EveryEditedMessagePlanned ==
    [][FetchStep => /\ RequalifiedOnce(Range(history[source_entity]))
                    /\ NotPlannedAgain]_vars

\* C2 amended: the same of a message that passes the filters of that next
\* run (no service action; a real file when the run is files-only).
C2_EditRedelivery ==
    [][FetchStep => /\ RequalifiedOnce(Surviving(source_entity, files_only))
                    /\ NotPlannedAgain]_vars

\* a run found nothing new although an earlier run had re-qualified an
\* edited message of the chat
C2_Witness ==
    /\ pc = "idle"
    /\ outcome = "nothing_new"
    /\ \E v \in obs.requalified :
           /\ v[1] = source_entity
           /\ history[source_entity][v[2]].edit = v[3]

\* C3: a run delivers again a version that was delivered before (and not
\* edited after the start of the run that delivered it) only if a run
\* crashed between the return of the send of that message and the write of
\* its ledger entry.
C3_DuplicateOnlyInCrashWindow ==
    [][(pc = "send" /\ sentLog' # sentLog
          /\ <<source_entity, message_to_send.id, message_to_send.edit>>
                 \in obs.delivered)
         => this_token \in obs.windowCrash]_vars

NoSendInRun ==
    /\ sentLog = <<>>
    /\ pc \notin {"send", "persist", "memadd", "save"}
    /\ pc = "idle" => ret = 0

\* C1 as stated: a run called again for the same source chat (and with the
\* same files_only) right after a run that returned past the listing, with
\* no post and no edit in the chat since that listing, makes no send and
\* returns 0.
C1_SecondRunSendsNothing ==
    obs.follow \in {"plain", "clean"} => NoSendInRun

\* C1 amended: the same, provided no send of the first run raised a
\* non-rate-limit error and no message of the chat carried, at the first
\* run's listing, an edit instant later than the first run's start instant.
C1_DedupIdempotence ==
    obs.follow = "clean" => NoSendInRun

\* the second of two such runs has returned, the first having delivered
C1_Witness ==
    /\ obs.follow = "clean"
    /\ pc = "idle"
    /\ outcome = "nothing_new"
    /\ \E i \in DOMAIN history[source_entity] :
           <<source_entity, i, history[source_entity][i].edit>> \in obs.delivered

(* ---------------------------- delivery order --------------------------- *)
\* the position of message id in the newest-first listing of the source chat
ListedAt(id) ==
    CHOOSE i \in DOMAIN IterMessages(source_entity) :
        IterMessages(source_entity)[i].id = id

\* of two records of the sequence, the one listed later comes first
LaterListedFirst(seq) ==
    \A i, j \in DOMAIN seq : i < j => ListedAt(seq[i].id) > ListedAt(seq[j].id)

\* the loop attempts the records of the plan one after the other: a send
\* that returns is the send of the record at hand, and the loop goes from a
\* record to the very next one
AttemptsInPlanOrder ==
    /\ (pc = "fetch" /\ pc' = "send") => idx' = 1
    /\ (InLoop /\ pc' \in {"send", "persist", "memadd", "save"})
           => /\ new_messages' = new_messages
              /\ idx' \in {idx, idx + 1}
              /\ pc' = "save" => idx = Len(new_messages)
    /\ (pc = "send" /\ sentLog' # sentLog)
           => /\ Len(sentLog') = Len(sentLog) + 1
              /\ sentLog'[Len(sentLog')].id = message_to_send.id

\* C11: the messages of a run are sent oldest first, in the exact reverse of
\* the newest-first order in which the source history lists them: of any two
\* planned messages, the one listed later is attempted before the one listed
\* earlier, and the sends that return follow the same order.
C11_DeliveryOrder ==
    /\ [](pc \in {"send", "persist", "memadd", "save"}
             => LaterListedFirst(new_messages))
    /\ [](pc # "idle" => LaterListedFirst(sentLog))
    /\ [][AttemptsInPlanOrder]_vars

\* two planned messages have been sent, the older one first
C11_Witness ==
    /\ pc = "save"
    /\ Len(new_messages) = 2
    /\ Len(sentLog) = 2
    /\ sentLog[1].id < sentLog[2].id
    /\ IterMessages(source_entity)[1].id = sentLog[2].id

(* --------------------------- watermark store --------------------------- *)
\* the watermark store is saved only when the loop has attempted the last
\* planned record or the plan is found empty, no send follows the save, and
\* a run that dies leaves the store as it was
WatermarkWriteStep ==
    /\ obs'.saves > obs.saves
           => \/ pc = "save" /\ idx = Len(new_messages)
              \/ pc = "fetch" /\ new_messages' = <<>>
    /\ tsFile' # tsFile => obs'.saves > obs.saves
    /\ obs.saves > 0 => sentLog' = sentLog \/ obs'.saves = 0
    /\ outcome' = "crashed" => tsFile' = tsFile

\* C12: a run that gets past entity and topic resolution loads the watermark
\* store exactly once and saves it exactly once; the save comes only after
\* the last planned message has been attempted or the plan has been found
\* empty, no send is attempted after it, and a run interrupted before it
\* leaves the stored watermark at its prior value.
C12_WatermarkWriteOrdering ==
    /\ []((pc = "idle" /\ PastResolution) => obs.loads = 1 /\ obs.saves = 1)
    /\ [](obs.loads <= 1 /\ obs.saves <= 1)
    /\ [][WatermarkWriteStep]_vars

(* ------------------------------- ledger -------------------------------- *)
\* C13: a token that is in the delivery ledger, in the log file or in the
\* in-memory set, is never removed: whatever the step (a send, a rate limit,
\* a failed send, an abort, the start of a run, the death of the process),
\* the ledger after it holds every token the ledger held before it.
C13_LedgerAppendOnly ==
    [][/\ Range(logFile) \subseteq Range(logFile')
       /\ forwarded_ids \subseteq forwarded_ids'
       /\ Len(logFile') >= Len(logFile)]_vars

\* the ledger holds the token of a delivered message after a run with a
\* failed send and an aborted run
C13_Witness ==
    /\ pc = "idle"
    /\ outcome = "abort_entity"
    /\ obs.failed # {}
    /\ \E d \in obs.delivered : Token(d[1], d[2]) \in Range(logFile)
    /\ forwarded_ids = Range(logFile)

(* --------------------------- topic resolution -------------------------- *)
\* a marker is added to the destination only by a run that resolves a label
\* no marker of the destination carries, and a label that a marker carries
\* resolves to the id of that marker, nothing being created
TopicResolutionStep ==
    /\ destTopics' # destTopics
           => /\ pc = "topic"
              /\ final_topic_name \notin Range(destTopics)
              /\ destTopics' = Append(destTopics, final_topic_name)
    /\ (pc = "topic" /\ final_topic_name \in Range(destTopics))
           => /\ destTopics' = destTopics
              /\ \/ outcome' = "crashed"
                 \/ pc' = "topic"
                 \/ /\ pc' = "fetch"
                    /\ destination_topic_id' \in DOMAIN destTopics
                    /\ destTopics[destination_topic_id'] = final_topic_name

\* C14: a create-topic request is issued only if no topic-creation marker
\* whose title equals the label exists in the destination history at scan
\* time; when one exists its id is returned and nothing is created, so runs
\* repeated with the same label never create a second topic of that title.
C14_TopicResolutionIdempotent ==
    /\ [](\A i, j \in DOMAIN destTopics :
             destTopics[i] = destTopics[j] => i = j)
    /\ [][TopicResolutionStep]_vars

\* a later run has found the topic an earlier run created
C14_Witness ==
    /\ pc = "fetch"
    /\ obs.scan = "found"
    /\ destTopics = <<final_topic_name>>
    /\ destination_topic_id = 1

(* ----------------------------- termination ----------------------------- *)
\* a run that has entered the delivery loop returns only from the save that
\* follows the attempt of the last planned record
AttemptedEveryPlanned ==
    ((InLoop \/ pc = "save") /\ pc' = "idle")
        => \/ outcome' = "crashed"
           \/ pc = "save" /\ idx = Len(new_messages) /\ outcome' = "completed"

\* a rate-limit signal does not end the run: the call is made again
NeverGivesUp ==
    Len(floodLog') > Len(floodLog) => pc' = pc /\ pc' # "idle"

\* C15: the remote calls signalling a rate limit finitely many times, every
\* run of forward_messages_from_chat terminates, having attempted every
\* planned message; and no rate-limit signal, of whatever remote call, makes
\* the run give up on the call.
C15_RunTermination ==
    /\ (pc # "idle") ~> (pc = "idle")
    /\ [][AttemptedEveryPlanned]_vars
    /\ [][NeverGivesUp]_vars

(* --------------------------- files-only filter ------------------------- *)
Excluded == {"sticker", "animated", "audio", "imagesize"}

PlannedIds(plan) == { plan[i].id : i \in DOMAIN plan }

\* what the plan of a listing holds and does not hold
FilesOnlyPlan ==
    /\ \A i \in DOMAIN new_messages' :
           /\ ~new_messages'[i].shape.action
           /\ files_only => /\ new_messages'[i].shape.media = "document"
                             /\ new_messages'[i].shape.attrs \cap Excluded = {}
    /\ \A m \in Range(history[source_entity]) :
           (/\ ~m.shape.action
            /\ m.shape.media = "document"
            /\ m.shape.attrs \subseteq {"filename"}
            /\ Token(source_entity, m.id) \notin forwarded_ids)
               => m.id \in PlannedIds(new_messages')

\* C16: in files-only mode a message is in the plan only if it has a
\* document attachment none of whose attributes is a sticker, animated,
\* audio or image-size attribute; a document with only generic attributes
\* (and not in the ledger) is in the plan; a service-action record is never
\* planned, in either mode.
C16_FilesOnlyFilter ==
    [][FetchStep => FilesOnlyPlan]_vars

\* a files-only run has planned the generic document of a chat and left
\* out its sticker
C16_Witness ==
    /\ pc = "send"
    /\ files_only
    /\ Len(history[source_entity]) = 2
    /\ history[source_entity][1].shape.attrs = {"sticker"}
    /\ history[source_entity][2].shape.attrs = {"filename"}
    /\ PlannedIds(new_messages) = {2}

(* ---------------------------- planner partition ------------------------ *)
\* the record is not in the ledger, or is in it and was edited after the
\* stored watermark of the source chat
NewOrEdited(m) ==
    \/ Token(source_entity, m.id) \notin Range(logFile)
    \/ /\ Token(source_entity, m.id) \in Range(logFile)
       /\ m.edit # NoEdit
       /\ m.edit > StoredWatermark(source_entity)

PartitionStep ==
    /\ \A m \in Surviving(source_entity, files_only) :
           m.id \in PlannedIds(new_messages') <=> NewOrEdited(m)
    /\ Range(new_messages') \subseteq Surviving(source_entity, files_only)

\* C17: a record that survives the service-action and files-only filters is
\* in the plan if and only if its token is not in the ledger, or it is in
\* the ledger and has an edit instant strictly greater than the stored
\* watermark of the source chat (0 when the chat has none); every other
\* record is skipped and is not sent in that run.
C17_PlannerPartition ==
    /\ [][FetchStep => PartitionStep]_vars
    /\ []((InLoop \/ pc = "save") => Ids(sentLog) \subseteq PlannedIds(new_messages))

\* a run has planned a new record and skipped a record of the ledger
C17_Witness ==
    /\ pc = "send"
    /\ idx = 1
    /\ \E m \in Surviving(source_entity, files_only) :
           /\ Token(source_entity, m.id) \in forwarded_ids
           /\ m.id \notin PlannedIds(new_messages)
    /\ \E i \in DOMAIN new_messages :
           Token(source_entity, new_messages[i].id) \notin forwarded_ids

(* ------------------------- activity during a run ----------------------- *)
\* C18: a message of the source chat that is posted, or that was delivered
\* and is edited, at an instant later than the start instant of a run, that
\* version not being delivered by that run, is in the plan of the next run
\* that lists the chat (if it passes that run's filters).
C18_ActivityDuringRunNotLost ==
    [][FetchStep =>
          \A m \in Surviving(source_entity, files_only) :
              Token(source_entity, m.id) \in obs.due
                  => m.id \in PlannedIds(new_messages')]_vars

(* ------------------------- durable before memory ----------------------- *)
\* a token enters the in-memory set only when the file holds it, and the
\* file is appended one token that the in-memory set does not hold
DurableFirstStep ==
    /\ (forwarded_ids' \ forwarded_ids) \subseteq Range(logFile)
    /\ logFile' # logFile
           => /\ logFile' = Append(logFile, logFile'[Len(logFile')])
              /\ logFile'[Len(logFile')] \notin forwarded_ids
    /\ (pc = "persist" /\ this_token \in forwarded_ids) => logFile' = logFile

\* C19: in every reachable state the in-memory set forwarded_ids is a
\* subset of the tokens of the log file; a token is written to the file
\* before it is added to the in-memory set, and a token that is in the
\* in-memory set is not appended to the file again when an edited message
\* is delivered again.
C19_DurableBeforeMemory ==
    /\ [](forwarded_ids \subseteq Range(logFile))
    /\ [][DurableFirstStep]_vars

\* an edited message of the ledger has been delivered again and counted,
\* the file holding its token once
C19_Witness ==
    /\ pc = "save"
    /\ total_forwarded_in_session >= 1
    /\ \E i \in DOMAIN sentLog :
           /\ sentLog[i].edit # NoEdit
           /\ <<source_entity, sentLog[i].id, NoEdit>> \in obs.delivered
           /\ Token(source_entity, sentLog[i].id) \in forwarded_ids
           /\ Count(logFile, Token(source_entity, sentLog[i].id)) = 1

=============================================================================
